---- MODULE Spec2Model ----
(***************************************************************************)
(* The Gathering web scraper: Application (src/src/application.js) and     *)
(* LinkScraper (src/unnamed/part_000).                                     *)
(*                                                                         *)
(* A JavaScript string whose characters the code inspects (day labels,     *)
(* status cells, slot codes, times) is a sequence of one-character         *)
(* strings.  Text the code only copies (movie titles, the literal parts of *)
(* the suggestion template) is carried as one multi-character token.       *)
(***************************************************************************)
EXTENDS Integers, Sequences, FiniteSets, TLC

(* ----------------------------------------------------------------------- *)
(* Bounds of the model                                                     *)
(* ----------------------------------------------------------------------- *)
\* the calendar index links at most this many calendar pages
MaxPages == 2

(* ----------------------------------------------------------------------- *)
(* JavaScript values and string primitives                                 *)
(* ----------------------------------------------------------------------- *)
\* NaN, the result of parseInt / Number on text that is not a number; every
\* number the model parses is non-negative (its texts hold no sign).
NaN == -1

\* a value that may be undefined (an async function that returned nothing)
Undef == [def |-> FALSE, val |-> <<>>]
Def(v) == [def |-> TRUE, val |-> v]

\* `${undefined}` and a property that is undefined
Undefined == <<"undefined">>

UpperCase == <<"A","B","C","D","E","F","G","H","I","J","K","L","M",
               "N","O","P","Q","R","S","T","U","V","W","X","Y","Z">>
LowerCase == <<"a","b","c","d","e","f","g","h","i","j","k","l","m",
               "n","o","p","q","r","s","t","u","v","w","x","y","z">>
Digits == <<"0","1","2","3","4","5","6","7","8","9">>

IsDigit(c) == \E i \in 1..10 : Digits[i] = c
DigitVal(c) == (CHOOSE i \in 1..10 : Digits[i] = c) - 1

ToLowerChar(c) ==
  IF \E i \in 1..26 : UpperCase[i] = c
    THEN LowerCase[CHOOSE i \in 1..26 : UpperCase[i] = c]
    ELSE c

\* String.prototype.toLowerCase
toLowerCase(s) == [i \in 1..Len(s) |-> ToLowerChar(s[i])]

\* String.prototype.startsWith
startsWith(s, p) == Len(p) <= Len(s) /\ SubSeq(s, 1, Len(p)) = p

\* String.prototype.slice(a, b) and slice(a), 0-based, clamped to the length
slice(s, a, b) == SubSeq(s, a + 1, IF b < Len(s) THEN b ELSE Len(s))
sliceFrom(s, a) == SubSeq(s, a + 1, Len(s))

\* s.split(sep)[0]: the text before the first sep, the whole text without one
splitFirst(s, sep) ==
  IF \E i \in 1..Len(s) : s[i] = sep
    THEN SubSeq(s, 1, (CHOOSE i \in 1..Len(s) :
                         s[i] = sep /\ \A j \in 1..(i - 1) : s[j] # sep) - 1)
    ELSE s

\* the value of a text of digits
RECURSIVE DigitsValue(_)
DigitsValue(s) ==
  IF s = <<>> THEN 0
  ELSE 10 * DigitsValue(SubSeq(s, 1, Len(s) - 1)) + DigitVal(s[Len(s)])

\* the longest prefix of digits
DigitPrefix(s) ==
  LET n == CHOOSE k \in 0..Len(s) :
             /\ \A i \in 1..k : IsDigit(s[i])
             /\ (k < Len(s) => ~IsDigit(s[k + 1]))
  IN SubSeq(s, 1, n)

\* parseInt(s): the leading digits, NaN without one
parseInt(s) == IF DigitPrefix(s) = <<>> THEN NaN ELSE DigitsValue(DigitPrefix(s))

\* Number(s): the whole text must be digits; Number('') is 0
Number(s) == IF \A i \in 1..Len(s) : IsDigit(s[i]) THEN DigitsValue(s) ELSE NaN

\* a + b on numbers: NaN is absorbing
Plus(a, b) == IF a = NaN \/ b = NaN THEN NaN ELSE a + b

\* a === b on numbers: NaN equals nothing, itself included
StrictEq(a, b) == a # NaN /\ b # NaN /\ a = b

\* `${n}` and n.toString() for a number
RECURSIVE NatToString(_)
NatToString(n) ==
  IF n < 10 THEN <<Digits[n + 1]>>
  ELSE NatToString(n \div 10) \o <<Digits[(n % 10) + 1]>>

toString(n) == IF n = NaN THEN <<"N","a","N">> ELSE NatToString(n)

\* s.padStart(2, '0')
padStart2(s) == IF Len(s) = 0 THEN <<"0","0">>
                ELSE IF Len(s) = 1 THEN <<"0">> \o s ELSE s

\* Array.prototype.filter: the elements of s at the positions in keep, in order
Filter(s, keep) ==
  LET kept == {i \in 1..Len(s) : i \in keep}
      nth(k) == CHOOSE i \in kept : Cardinality({j \in kept : j <= i}) = k
  IN [k \in 1..Cardinality(kept) |-> s[nth(k)]]

\* [...new Set(xs)]: the first occurrence of each element, in order
Dedup(xs) == Filter(xs, {i \in 1..Len(xs) : \A j \in 1..(i - 1) : xs[j] # xs[i]})

\* push(...xs) of each list in turn
RECURSIVE Flatten(_)
Flatten(xss) == IF xss = <<>> THEN <<>> ELSE Head(xss) \o Flatten(Tail(xss))

(* ----------------------------------------------------------------------- *)
(* The texts of the sites                                                  *)
(* ----------------------------------------------------------------------- *)
Friday == <<"F","r","i","d","a","y">>
Saturday == <<"S","a","t","u","r","d","a","y">>
Sunday == <<"S","u","n","d","a","y">>

StatusOk == <<"o","k">>
StatusOK == <<"O","K">>
StatusNo == <<"-","-">>

T10 == <<"1","0",":","0","0">>
T16 == <<"1","6",":","0","0">>
T18 == <<"1","8",":","0","0">>
T20 == <<"2","0",":","0","0">>

KeepYourSeats == <<"Keep Your Seats, Please">>
DayAtTheRaces == <<"A Day at the Races">>
PickAMovie == <<"--- Pick a Movie ---">>
PickADay == <<"--- Pick a Day ---">>

fri1416 == <<"f","r","i","1","4","1","6">>
fri1820 == <<"f","r","i","1","8","2","0">>
fri2022 == <<"f","r","i","2","0","2","2">>
sat1820 == <<"s","a","t","1","8","2","0">>
sat2022 == <<"s","a","t","2","0","2","2">>
Fri1820 == <<"F","r","i","1","8","2","0">>

\* a calendar page: its th cells and its td cells, each in document order
CalendarPage(th, td) == [th |-> th, td |-> td]

\* the td rows a calendar page may hold under the headers Friday, Saturday;
\* the last row lacks a cell
CalendarRows ==
  { <<StatusOk, StatusOk>>, <<StatusOK, StatusNo>>, <<StatusNo, StatusOk>>,
    <<StatusNo, StatusNo>>, <<StatusOk>> }

CalendarPages == {CalendarPage(<<Friday, Saturday>>, td) : td \in CalendarRows}

\* the calendar pages the calendar index links, in the order of its links
Calendars == UNION {[1..n -> CalendarPages] : n \in 0..MaxPages}

Option(value, text) == [value |-> value, text |-> text]

\* the cinema page: the options of select#movie (undefined without that
\* element) and of select#day
CinemaFixture ==
  [movie |-> Def(<<Option(<<>>, PickAMovie), Option(<<"0","1">>, KeepYourSeats),
                   Option(<<"0","2">>, DayAtTheRaces)>>),
   day |-> <<Option(<<>>, PickADay), Option(<<"0","5">>, Friday),
             Option(<<"0","6">>, Saturday), Option(<<"0","7">>, Sunday)>>]

\* a cinema page whose option values are not zero-padded and that offers
\* Friday alone
CinemaUnpadded ==
  [movie |-> Def(<<Option(<<>>, PickAMovie), Option(<<"1">>, KeepYourSeats)>>),
   day |-> <<Option(<<>>, PickADay), Option(<<"5">>, Friday)>>]

\* a cinema page without select#movie
CinemaNoSelect == [movie |-> Undef, day |-> <<>>]

CinemaPages == {CinemaFixture, CinemaUnpadded, CinemaNoSelect}

TimeEntry(status, time) == [status |-> status, time |-> time]

\* the bodies the check endpoint may answer with
CheckResponses ==
  { <<TimeEntry(0, T10)>>,
    <<TimeEntry(0, T10), TimeEntry(1, T16)>>,
    <<TimeEntry(1, T18)>>,
    <<TimeEntry(0, T18), TimeEntry(1, T20)>> }

Input(name, value) == [name |-> name, value |-> value]
Group1(value) == Input("group1", value)

\* the pages the restaurant answers an authorized request with
BookingPages ==
  { <<Group1(fri1820), Group1(sat1820), Group1(sat2022)>>,
    <<Group1(fri1416), Group1(fri1820), Group1(fri2022)>>,
    <<Group1(Fri1820), Input("group2", sat2022)>> }

\* the page the restaurant answers a request without a session or at a
\* path that does not exist with: no booking input
LoginPage == <<Input("username", <<>>)>>

\* the links of the start page, sorted: calendar, cinema, dinner
SiteLinks == <<"calendar", "cinema", "dinner">>

(* ----------------------------------------------------------------------- *)
(* LinkScraper: the computations                                           *)
(* ----------------------------------------------------------------------- *)
\* parseHtmlDates reads tdElements[i] for every i < thElements.length: a
\* missing cell is undefined and its toLowerCase() a TypeError
parseHtmlDatesThrows(page) == Len(page.th) > Len(page.td)

RECURSIVE okDaysUpTo(_, _)
okDaysUpTo(page, n) ==
  IF n = 0 THEN <<>>
  ELSE LET before == okDaysUpTo(page, n - 1)
       IN IF toLowerCase(page.td[n]) = StatusOk
            THEN Append(before, page.th[n]) ELSE before

parseHtmlDates(page) == okDaysUpTo(page, Len(page.th))

includes(xs, x) == \E i \in 1..Len(xs) : xs[i] = x

\* the days of the first list that every other list includes
commonDays(arrayDays) ==
  LET first == Head(arrayDays)
      rest == Tail(arrayDays)
  IN Filter(first, {i \in 1..Len(first) :
                      \A k \in 1..Len(rest) : includes(rest[k], first[i])})

\* dayOp.find(option => option.text === goodDay)
findDay(dayOp, goodDay) ==
  IF \E i \in 1..Len(dayOp) : dayOp[i].text = goodDay
    THEN Def(dayOp[CHOOSE i \in 1..Len(dayOp) :
                     dayOp[i].text = goodDay
                     /\ \A j \in 1..(i - 1) : dayOp[j].text # goodDay])
    ELSE Undef

\* n.toString().padStart(2, '0')
twoDigits(n) == padStart2(toString(n))

\* options.find(option => option.value === movieString), then its text
movieTitle(options, movieString) ==
  IF \E i \in 1..Len(options) : options[i].value = movieString
    THEN options[CHOOSE i \in 1..Len(options) :
                   options[i].value = movieString
                   /\ \A j \in 1..(i - 1) : options[j].value # movieString].text
    ELSE Undefined

\* the showings of one check response
movieTimes(content, title) ==
  LET removeZero == Filter(content, {i \in 1..Len(content) : content[i].status # 0})
  IN [i \in 1..Len(removeZero) |-> [timeOp |-> removeZero[i].time, movie |-> title]]

\* the values of the input[name="group1"] elements
inputElements(restFree) ==
  LET group == Filter(restFree, {i \in 1..Len(restFree) : restFree[i].name = "group1"})
  IN [i \in 1..Len(group) |-> group[i].value]

\* filterDays without the lowercasing of dateInfo
filterDaysNoLower(inputs, dateInfo) ==
  Filter(inputs, {k \in 1..Len(inputs) :
       \E i \in 1..Len(dateInfo) : startsWith(dateInfo[i], slice(inputs[k], 0, 3))})

\* the slot codes whose first three characters start a lowercased day
filterDays(inputs, dateInfo) ==
  LET lowered == [i \in 1..Len(dateInfo) |-> toLowerCase(dateInfo[i])]
  IN Filter(inputs, {k \in 1..Len(inputs) :
       \E i \in 1..Len(lowered) : startsWith(lowered[i], slice(inputs[k], 0, 3))})

\* the film's hour plus two
hourTwo(film) == Plus(parseInt(splitFirst(film.timeOp, ":")), 2)

\* resTime with every slot that starts two hours after the film or later
resTimeAtLeast(slots, film) ==
  LET filteredTimes == Filter(slots, {k \in 1..Len(slots) :
                         /\ parseInt(slice(slots[k], 3, 5)) # NaN
                         /\ hourTwo(film) # NaN
                         /\ parseInt(slice(slots[k], 3, 5)) >= hourTwo(film)})
  IN [i \in 1..Len(filteredTimes) |->
        toString(parseInt(slice(filteredTimes[i], 3, 5))) \o <<"-">>
          \o toString(parseInt(sliceFrom(filteredTimes[i], 5)))]

\* the reservation strings of one film
resTime(slots, film) ==
  LET filteredTimes == Filter(slots, {k \in 1..Len(slots) :
                         StrictEq(parseInt(slice(slots[k], 3, 5)), hourTwo(film))})
  IN [i \in 1..Len(filteredTimes) |->
        toString(parseInt(slice(filteredTimes[i], 3, 5))) \o <<"-">>
          \o toString(parseInt(sliceFrom(filteredTimes[i], 5)))]

sortAvailability(restFree, cinemaInfo, dateInfo) ==
  LET slots == filterDays(inputElements(restFree), dateInfo)
  IN Flatten([i \in 1..Len(cinemaInfo) |-> resTime(slots, cinemaInfo[i])])

(* ----------------------------------------------------------------------- *)
(* Application.run: the final assembly                                     *)
(* ----------------------------------------------------------------------- *)
movieStartTime(cinema) == Number(splitFirst(cinema.timeOp, ":"))
restaurantStartTime(restaurant) == Number(splitFirst(restaurant, "-"))

\* the guard with the table required to start after the movie
joinGuardLater(cinema, restaurant) ==
  /\ movieStartTime(cinema) # NaN
  /\ restaurantStartTime(restaurant) # NaN
  /\ restaurantStartTime(restaurant) > movieStartTime(cinema)

\* movieStartTime !== restaurantStartTime
joinGuard(cinema, restaurant) ==
  ~StrictEq(movieStartTime(cinema), restaurantStartTime(restaurant))

restaurantTime(cinema, restaurantInfo) ==
  Filter(restaurantInfo, {k \in 1..Len(restaurantInfo) :
                            joinGuard(cinema, restaurantInfo[k])})

\* the template literal of the suggestion
Sentence(date, cinema, restaurant) ==
  <<"On ">> \o date \o <<", \"">> \o cinema.movie \o <<"\" Begins at ">>
    \o cinema.timeOp \o <<", and there is a free table between ">> \o restaurant

cinemaResults(date, cinema, restaurantInfo) ==
  LET rt == restaurantTime(cinema, restaurantInfo)
  IN [k \in 1..Len(rt) |-> Sentence(date, cinema, rt[k])]

dateResults(date, cinemaInfo, restaurantInfo) ==
  Flatten([j \in 1..Len(cinemaInfo) |->
             cinemaResults(date, cinemaInfo[j], restaurantInfo)])

assemble(dateInfo, cinemaInfo, restaurantInfo) ==
  Flatten([i \in 1..Len(dateInfo) |->
             dateResults(dateInfo[i], cinemaInfo, restaurantInfo)])

\* what run returns: its headline and the lines under it
NoDatesAvailable == [head |-> "No Dates Available", lines |-> <<>>]
finalResult(results) == [head |-> "Suggestions:", lines |-> Dedup(results)]
NothingPrinted == [head |-> "", lines |-> <<>>]

(* ----------------------------------------------------------------------- *)
(* The run                                                                 *)
(* ----------------------------------------------------------------------- *)
VARIABLES
  calendar,        \* the site: the calendar pages the calendar index links
  cinema,          \* the site: the cinema page
  pc,              \* where the run stands
  links,           \* initial(): the links of the start page, or undefined
  nested,          \* extractDates: the calendar page the loop is at
  arrayDays,       \* extractDates: the ok-day lists collected so far
  dateInfo,        \* run: what extractDates returned
  dayIdx,          \* extractCinema: the good day the loop is at
  film,            \* extractCinema: the showings collected so far
  dayString,       \* iterateMovieDates: the day number, two digits
  movie,           \* iterateMovieDates: the movie the loop is at
  data,            \* iterateMovieDates: the showings of the day so far
  checks,          \* getCheckUrl: the answers of the check endpoint, in order
  cinemaInfo,      \* run: what extractCinema returned
  cookie,          \* restaurantAuthentication: login answered with Set-Cookie
  location,        \* restaurantAuthentication: login answered with Location
  restData,        \* extractRestaurant: the page restaurantAuthentication returned
  filtered,        \* sortAvailability: filterDays, the slot codes of the good days
  restaurantInfo,  \* run: what extractRestaurant returned
  results,         \* run: the sentences pushed by the nested loops
  returned,        \* what run returned
  printed,         \* what console.log(await app.run()) printed
  exitCode,        \* the exit status of the process, -1 while it runs
  log              \* requests issued, fetches failed, console lines, in order

site == <<calendar, cinema>>
datesVars == <<nested, arrayDays, dateInfo>>
cinemaVars == <<dayIdx, film, dayString, movie, data, checks, cinemaInfo>>
restVars == <<cookie, location, restData, filtered, restaurantInfo>>
endVars == <<results, returned, printed, exitCode>>
vars == <<calendar, cinema, pc, links, nested, arrayDays, dateInfo, dayIdx, film,
          dayString, movie, data, checks, cinemaInfo, cookie, location, restData,
          filtered, restaurantInfo, results, returned, printed, exitCode, log>>

Ev(ch, msg, arg) == [ch |-> ch, msg |-> msg, arg |-> arg]
\* a request is issued
Net(msg, arg) == Ev("net", msg, arg)
\* a fetch rejects, or its body does not parse
Fail(msg) == Ev("fail", msg, <<>>)
Out(msg) == Ev("out", msg, <<>>)
Err(msg) == Ev("err", msg, <<>>)

\* what getCheckUrl returned for the day and the movie it asked about
Answer(day, movieString, content) ==
  [day |-> day, movie |-> movieString, content |-> content]

Running == -1

Locals ==
  /\ nested = 0
  /\ arrayDays = <<>>
  /\ dayIdx = 0
  /\ film = <<>>
  /\ dayString = <<>>
  /\ movie = 0
  /\ data = <<>>
  /\ checks = <<>>
  /\ filtered = <<>>
  /\ restaurantInfo = Undef
  /\ results = <<>>
  /\ returned = NothingPrinted
  /\ printed = NothingPrinted
  /\ exitCode = Running
  /\ log = <<>>

Init ==
  /\ calendar \in Calendars
  /\ cinema \in CinemaPages
  /\ pc = "start"
  /\ links = Undef
  /\ dateInfo = Undef
  /\ cinemaInfo = Undef
  /\ cookie = FALSE
  /\ location = FALSE
  /\ restData = <<>>
  /\ Locals

\* run, to its first await
Run ==
  /\ pc = "start"
  /\ log' = Append(log, Out("Scraping Links...OK"))
  /\ pc' = "dates_initial"
  /\ UNCHANGED <<site, links, datesVars, cinemaVars, restVars, endVars>>

afterInitial ==
  [dates_initial |-> "dates_links", cinema_initial |-> "cinema_links",
   rest_initial |-> "rest_links"]

\* initial: the links of the start page; a failure is logged and the result
\* is undefined
initial ==
  /\ pc \in {"dates_initial", "cinema_initial", "rest_initial"}
  /\ \E ok \in BOOLEAN :
       /\ links' = IF ok THEN Def(SiteLinks) ELSE Undef
       /\ log' = log \o <<Net("start", <<>>)>>
                   \o (IF ok THEN <<>>
                       ELSE <<Fail("start"), Err("Failed to fetch links")>>)
  /\ pc' = afterInitial[pc]
  /\ UNCHANGED <<site, datesVars, cinemaVars, restVars, endVars>>

\* extractDates after initial(): the links of the calendar index
ExtractDates ==
  /\ pc = "dates_links"
  /\ \/ /\ ~links.def
        /\ log' = Append(log, Err("No links fetched"))
        /\ dateInfo' = Undef
        /\ pc' = "run_dates"
        /\ UNCHANGED <<nested, arrayDays>>
     \/ /\ links.def
        /\ \E ok \in BOOLEAN :
             /\ log' = log \o <<Net("calendar", <<>>)>>
                         \o (IF ok THEN <<>>
                             ELSE <<Fail("calendar"),
                                    Err("Failed to fetch links from")>>)
             /\ pc' = IF ok /\ Len(calendar) > 0 THEN "dates_pages"
                      ELSE "dates_common"
        /\ nested' = 1
        /\ arrayDays' = <<>>
        /\ UNCHANGED dateInfo
  /\ UNCHANGED <<site, links, cinemaVars, restVars, endVars>>

\* one turn of the loop over the calendar pages: parseHtmlDates; a failure
\* leaves the loop through the catch of extractDates
ParseHtmlDates ==
  /\ pc = "dates_pages"
  /\ \E ok \in BOOLEAN :
       LET page == calendar[nested]
           request == Net("calendar page", toString(nested))
       IN IF ok /\ ~parseHtmlDatesThrows(page)
            THEN /\ arrayDays' = Append(arrayDays, parseHtmlDates(page))
                 /\ nested' = nested + 1
                 /\ log' = Append(log, request)
                 /\ pc' = IF nested < Len(calendar) THEN "dates_pages"
                          ELSE "dates_common"
            ELSE /\ log' = log \o <<request, Fail("calendar page"),
                                    Err("Failed to fetch links from")>>
                 /\ pc' = "dates_common"
                 /\ UNCHANGED <<arrayDays, nested>>
  /\ UNCHANGED <<site, links, dateInfo, cinemaVars, restVars, endVars>>

\* the common ok days; arrayDays.shift() of an empty array is undefined and
\* its filter a TypeError
CommonDays ==
  /\ pc = "dates_common"
  /\ \/ /\ arrayDays = <<>>
        /\ pc' = "catch"
        /\ UNCHANGED <<dateInfo, log>>
     \/ /\ arrayDays # <<>>
        /\ dateInfo' = Def(commonDays(arrayDays))
        /\ log' = Append(log, Out("Scraping Date...OK"))
        /\ pc' = "run_dates"
  /\ nested' = 0
  /\ arrayDays' = <<>>
  /\ UNCHANGED <<site, links, cinemaVars, restVars, endVars>>

\* run after extractDates: dateInfo.length of undefined is a TypeError
RunDates ==
  /\ pc = "run_dates"
  /\ \/ /\ ~dateInfo.def
        /\ pc' = "catch"
        /\ UNCHANGED returned
     \/ /\ dateInfo.def
        /\ Len(dateInfo.val) = 0
        /\ returned' = NoDatesAvailable
        /\ pc' = "print"
     \/ /\ dateInfo.def
        /\ Len(dateInfo.val) > 0
        /\ pc' = "cinema_initial"
        /\ UNCHANGED returned
  /\ UNCHANGED <<site, links, datesVars, cinemaVars, restVars, results, printed, exitCode, log>>

\* extractCinema after initial()
ExtractCinema ==
  /\ pc = "cinema_links"
  /\ \/ /\ ~links.def
        /\ log' = Append(log, Err("No links fetched"))
        /\ cinemaInfo' = Undef
        /\ pc' = "rest_initial"
        /\ UNCHANGED <<dayIdx, film>>
     \/ /\ links.def
        /\ film' = <<>>
        /\ dayIdx' = 1
        /\ pc' = "cinema_day"
        /\ UNCHANGED <<cinemaInfo, log>>
  /\ UNCHANGED <<site, links, datesVars, dayString, movie, data, checks, restVars, endVars>>

\* iterateMovieDates returns dayData: extractCinema pushes it and goes to the
\* next good day, or returns film after the last
DayDone(dayData, events) ==
  /\ film' = film \o dayData
  /\ dayString' = <<>>
  /\ movie' = 0
  /\ data' = <<>>
  /\ IF dayIdx < Len(dateInfo.val)
       THEN /\ dayIdx' = dayIdx + 1
            /\ pc' = "cinema_day"
            /\ log' = log \o events
            /\ UNCHANGED cinemaInfo
       ELSE /\ dayIdx' = 0
            /\ cinemaInfo' = Def(film')
            /\ log' = log \o events \o <<Out("Scraping Cinema...OK")>>
            /\ pc' = "rest_initial"

\* iterateMovieDates, to its loop: the cinema page and the option of the day
IterateMovieDates ==
  /\ pc = "cinema_day"
  /\ LET goodDay == dateInfo.val[dayIdx]
         request == Net("cinema", <<>>)
     IN \/ \* the fetch fails, or select#movie is missing: not caught
           /\ \E ok \in BOOLEAN : ok => ~cinema.movie.def
           /\ log' = log \o <<request, Fail("cinema")>>
           /\ pc' = "catch"
           /\ UNCHANGED cinemaVars
        \/ /\ cinema.movie.def
           /\ ~findDay(cinema.day, goodDay).def
           /\ DayDone(<<>>, <<request, Err("No dates available")>>)
           /\ UNCHANGED checks
        \/ /\ cinema.movie.def
           /\ findDay(cinema.day, goodDay).def
           /\ Len(cinema.movie.val) <= 1
           /\ DayDone(<<>>, <<request>>)
           /\ UNCHANGED checks
        \/ /\ cinema.movie.def
           /\ findDay(cinema.day, goodDay).def
           /\ Len(cinema.movie.val) > 1
           /\ dayString' = twoDigits(Number(findDay(cinema.day, goodDay).val.value))
           /\ movie' = 1
           /\ data' = <<>>
           /\ log' = Append(log, request)
           /\ pc' = "cinema_movie"
           /\ UNCHANGED <<dayIdx, film, checks, cinemaInfo>>
  /\ UNCHANGED <<site, links, datesVars, restVars, endVars>>

\* GetCheckUrl with a failed request caught and read as an empty answer
GetCheckUrlCaught ==
  /\ pc = "cinema_movie"
  /\ LET movieString == twoDigits(movie)
         request == Net("check", dayString \o <<"&">> \o movieString)
     IN \E failed \in BOOLEAN :
          \E content \in (IF failed THEN {<<>>} ELSE CheckResponses) :
             LET title == movieTitle(cinema.movie.val, movieString)
                 found == data \o movieTimes(content, title)
                 events == IF failed THEN <<request, Fail("check")>> ELSE <<request>>
             IN /\ checks' = IF failed THEN checks
                               ELSE Append(checks, Answer(dateInfo.val[dayIdx], movieString, content))
                /\ IF movie + 1 < Len(cinema.movie.val)
                     THEN /\ data' = found
                          /\ movie' = movie + 1
                          /\ log' = log \o events
                          /\ UNCHANGED <<pc, dayIdx, film, dayString, cinemaInfo>>
                     ELSE DayDone(found, events)
  /\ UNCHANGED <<site, links, datesVars, restVars, endVars>>

\* one turn of the loop over the movies: getCheckUrl and the showings of its
\* answer; a failure of the request is not caught
GetCheckUrl ==
  /\ pc = "cinema_movie"
  /\ LET movieString == twoDigits(movie)
         request == Net("check", dayString \o <<"&">> \o movieString)
     IN \/ /\ log' = log \o <<request, Fail("check")>>
           /\ pc' = "catch"
           /\ UNCHANGED cinemaVars
        \/ \E content \in CheckResponses :
             LET title == movieTitle(cinema.movie.val, movieString)
                 found == data \o movieTimes(content, title)
             IN /\ checks' = Append(checks, Answer(dateInfo.val[dayIdx], movieString, content))
                /\ IF movie + 1 < Len(cinema.movie.val)
                     THEN /\ data' = found
                          /\ movie' = movie + 1
                          /\ log' = Append(log, request)
                          /\ UNCHANGED <<pc, dayIdx, film, dayString, cinemaInfo>>
                     ELSE DayDone(found, <<request>>)
  /\ UNCHANGED <<site, links, datesVars, restVars, endVars>>

\* extractRestaurant after initial()
ExtractRestaurant ==
  /\ pc = "rest_links"
  /\ \/ /\ ~links.def
        /\ log' = Append(log, Err("No links fetched"))
        /\ pc' = "assemble"
     \/ /\ links.def
        /\ pc' = "rest_login"
        /\ UNCHANGED log
  /\ UNCHANGED <<site, links, datesVars, cinemaVars, restVars, endVars>>

\* restaurantAuthentication, the POST to /login: the headers of the answer
\* are read and not examined
RestaurantLogin ==
  /\ pc = "rest_login"
  /\ \/ /\ log' = log \o <<Net("login", <<>>), Fail("login")>>
        /\ pc' = "catch"
        /\ UNCHANGED <<cookie, location>>
     \/ /\ \E c \in BOOLEAN, l \in BOOLEAN :
             /\ cookie' = c
             /\ location' = l
        /\ log' = Append(log, Net("login", <<>>))
        /\ pc' = "rest_get"
  /\ UNCHANGED <<site, links, datesVars, cinemaVars, restData, filtered, restaurantInfo, endVars>>

\* the Cookie header and the path of the second request: a missing header
\* reads as null
cookieText == IF cookie THEN <<"session">> ELSE <<"null">>
locationText == IF location THEN <<"/login/booking">> ELSE <<"null">>

\* restaurantAuthentication, the GET of the redirect target with the cookie
RestaurantGet ==
  /\ pc = "rest_get"
  /\ LET request == Net("booking", locationText \o cookieText)
     IN \/ /\ log' = log \o <<request, Fail("booking")>>
           /\ pc' = "catch"
           /\ UNCHANGED restData
        \/ /\ restData' \in (IF cookie /\ location THEN BookingPages ELSE {LoginPage})
           /\ log' = Append(log, request)
           /\ pc' = "rest_sort"
  /\ UNCHANGED <<site, links, datesVars, cinemaVars, cookie, location, filtered, restaurantInfo, endVars>>

\* sortAvailability on the page; cinemaInfo undefined is not iterable
SortAvailability ==
  /\ pc = "rest_sort"
  /\ \/ /\ ~cinemaInfo.def
        /\ pc' = "catch"
        /\ UNCHANGED <<restaurantInfo, log>>
     \/ /\ cinemaInfo.def
        /\ restaurantInfo' = Def(sortAvailability(restData, cinemaInfo.val, dateInfo.val))
        /\ log' = Append(log, Out("Scraping Restaurant...OK"))
        /\ pc' = "assemble"
  /\ filtered' = filterDays(inputElements(restData), dateInfo.val)
  /\ UNCHANGED <<site, links, datesVars, cinemaVars, cookie, location, restData, endVars>>

\* the nested loops of run and its return value; iterating an undefined
\* cinemaInfo, or filtering an undefined restaurantInfo, is a TypeError
Assemble ==
  /\ pc = "assemble"
  /\ \/ /\ \/ ~cinemaInfo.def
           \/ (cinemaInfo.val # <<>> /\ ~restaurantInfo.def)
        /\ pc' = "catch"
        /\ UNCHANGED <<results, returned>>
     \/ /\ cinemaInfo.def
        /\ cinemaInfo.val = <<>> \/ restaurantInfo.def
        /\ results' = assemble(dateInfo.val, cinemaInfo.val, restaurantInfo.val)
        /\ returned' = finalResult(results')
        /\ pc' = "print"
  /\ UNCHANGED <<site, links, datesVars, cinemaVars, restVars, printed, exitCode, log>>

\* the entry point: console.log of what run returned
PrintResult ==
  /\ pc = "print"
  /\ printed' = returned
  /\ log' = Append(log, Out("result"))
  /\ exitCode' = 0
  /\ pc' = "done"
  /\ UNCHANGED <<site, links, datesVars, cinemaVars, restVars, results, returned>>

\* the entry point: the catch that prints the error and exits with 1
CatchError ==
  /\ pc = "catch"
  /\ log' = Append(log, Err("error"))
  /\ exitCode' = 1
  /\ pc' = "exited"
  /\ UNCHANGED <<site, links, datesVars, cinemaVars, restVars, results, returned, printed>>

Next ==
  \/ Run
  \/ initial
  \/ ExtractDates
  \/ ParseHtmlDates
  \/ CommonDays
  \/ RunDates
  \/ ExtractCinema
  \/ IterateMovieDates
  \/ GetCheckUrl
  \/ ExtractRestaurant
  \/ RestaurantLogin
  \/ RestaurantGet
  \/ SortAvailability
  \/ Assemble
  \/ PrintResult
  \/ CatchError

Spec == Init /\ [][Next]_vars

(* ----------------------------------------------------------------------- *)
(* The reconciliation on its own: sortAvailability, called at              *)
(* application.js:147 with any page, showings and good days, and the       *)
(* assembly that follows it                                                *)
(* ----------------------------------------------------------------------- *)
\* a restaurant page holds at most this many booking inputs
MaxSlots == 2

FRIDAY == <<"F","R","I","D","A","Y">>
friday == <<"f","r","i","d","a","y">>
fr == <<"f","r">>
fri18 == <<"f","r","i","1","8">>

Showing(time, title) == [timeOp |-> time, movie |-> title]

JoinDateInfos ==
  { <<Friday>>, <<FRIDAY>>, <<friday>>, <<Saturday>>, <<Friday, Saturday>>,
    <<Saturday, Friday>> }

JoinCinemaInfos ==
  { <<>>,
    <<Showing(T16, KeepYourSeats)>>,
    <<Showing(T16, KeepYourSeats), Showing(T16, DayAtTheRaces)>>,
    <<Showing(T16, KeepYourSeats), Showing(T18, KeepYourSeats)>>,
    <<Showing(T18, KeepYourSeats), Showing(T16, DayAtTheRaces)>>,
    <<Showing(T16, KeepYourSeats), Showing(T20, DayAtTheRaces)>>,
    <<Showing(T16, KeepYourSeats), Showing(T18, KeepYourSeats),
      Showing(T20, DayAtTheRaces)>>,
    <<Showing(T16, KeepYourSeats), Showing(T16, KeepYourSeats)>> }

JoinCodes == {fri1820, Fri1820, fri2022, sat1820, fr, fri18}

JoinPages ==
  UNION {[1..n -> {Group1(code) : code \in JoinCodes}] : n \in 0..MaxSlots}

InitJoin ==
  /\ calendar = <<>>
  /\ cinema = CinemaFixture
  /\ pc = "rest_sort"
  /\ links = Def(SiteLinks)
  /\ dateInfo \in {Def(d) : d \in JoinDateInfos}
  /\ cinemaInfo \in {Undef} \cup {Def(c) : c \in JoinCinemaInfos}
  /\ cookie = TRUE
  /\ location = TRUE
  /\ restData \in JoinPages
  /\ Locals

NextJoin ==
  \/ SortAvailability
  \/ Assemble
  \/ PrintResult
  \/ CatchError

SpecJoin == InitJoin /\ [][NextJoin]_vars

(* ----------------------------------------------------------------------- *)
(* What the log and the sites say                                          *)
(* ----------------------------------------------------------------------- *)
Range(s) == {s[i] : i \in 1..Len(s)}
Requested(msg) == \E i \in 1..Len(log) : log[i] = Net(msg, log[i].arg)
Failed(msg) == \E i \in 1..Len(log) : log[i] = Fail(msg)
Ended == pc \in {"done", "exited"}

\* the calendar page marks the day ok: some header cell is the day and the
\* data cell at its position reads ok, in any letter case
PageMarksOk(page, day) ==
  \E i \in 1..Len(page.th) :
    /\ i <= Len(page.td)
    /\ page.th[i] = day
    /\ page.td[i] \in {StatusOk, StatusOK}

CommonToAllPages(day) == \A k \in 1..Len(calendar) : PageMarksOk(calendar[k], day)

CalendarDays == {Friday, Saturday}

\* the start hour of a showing "HH:MM" and of a window "H-H"
ShowingHour(c) == parseInt(c.timeOp)
WindowStart(w) == parseInt(w)

(* ----------------------------------------------------------------------- *)
(* C1                                                                      *)
(* ----------------------------------------------------------------------- *)
\* C1: whenever extractDates returns a list of days, a day is in the list
\* if and only if every calendar page the calendar index links marks it ok.
C1_ExtractDatesIsIntersection ==
  dateInfo.def =>
    \A day \in CalendarDays : includes(dateInfo.val, day) <=> CommonToAllPages(day)

(* ----------------------------------------------------------------------- *)
(* C2                                                                      *)
(* ----------------------------------------------------------------------- *)
NoCommonDay ==
  /\ Len(calendar) > 0
  /\ \A day \in CalendarDays : ~CommonToAllPages(day)

CinemaOrRestaurantRequested ==
  Requested("cinema") \/ Requested("check") \/ Requested("login") \/ Requested("booking")

\* C2: if the ok-day lists of the calendar pages share no day, no cinema
\* request and no restaurant request is ever issued, no suggestion is
\* emitted, and a run that returns returns 'No Dates Available'.
C2_NoCommonDayStopsEarly ==
  NoCommonDay =>
    /\ ~CinemaOrRestaurantRequested
    /\ returned.head # "Suggestions:"
    /\ printed.head # "Suggestions:"
    /\ (pc = "done" => printed = NoDatesAvailable)

(* ----------------------------------------------------------------------- *)
(* C3                                                                      *)
(* ----------------------------------------------------------------------- *)
\* C3: in every suggestion sentence of the output the table window starts
\* at the start hour of the showing of that sentence plus two.
C3_TwoHourRule ==
  \A n \in 1..Len(printed.lines) :
    \A d \in Range(dateInfo.val), c \in Range(cinemaInfo.val),
       r \in Range(restaurantInfo.val) :
      printed.lines[n] = Sentence(d, c, r) => WindowStart(r) = ShowingHour(c) + 2

(* ----------------------------------------------------------------------- *)
(* C4                                                                      *)
(* ----------------------------------------------------------------------- *)
\* the fixture: Friday alone, both movies at 16:00, a Friday slot code 1820
FixtureRun ==
  /\ pc = "done"
  /\ dateInfo = Def(<<Friday>>)
  /\ cinemaInfo = Def(<<Showing(T16, KeepYourSeats), Showing(T16, DayAtTheRaces)>>)
  /\ \E k \in 1..Len(restData) : restData[k] = Group1(fri1820)
  /\ printed.head = "Suggestions:"

Window1800to2000 == <<"1","8",":","0","0","-","2","0",":","0","0">>

\* C4: on the fixture the output holds exactly two suggestion lines, one
\* per movie in the order of the showings, both citing 18:00-20:00.
C4_FixtureOutput ==
  FixtureRun =>
    printed.lines =
      << Sentence(Friday, Showing(T16, KeepYourSeats), Window1800to2000),
         Sentence(Friday, Showing(T16, DayAtTheRaces), Window1800to2000) >>

\* what does hold on the fixture: four sentences are pushed and two lines
\* are printed, one per movie, each citing the window as 18-20
FixtureTwoLines ==
  FixtureRun =>
    /\ Len(results) = 4
    /\ printed.lines =
         << Sentence(Friday, Showing(T16, KeepYourSeats), <<"1","8","-","2","0">>),
            Sentence(Friday, Showing(T16, DayAtTheRaces), <<"1","8","-","2","0">>) >>

LoginLacksHeader ==
  /\ Requested("login")
  /\ ~Failed("login")
  /\ ~(cookie /\ location)

\* C6: if the login response lacks Set-Cookie or Location, the second GET
\* is not issued, sortAvailability gets no page, no suggestions are printed
\* and the run ends in the error exit.
C6_MissingHeaderIsFatal ==
  LoginLacksHeader =>
    /\ ~Requested("booking")
    /\ ~restaurantInfo.def
    /\ printed.head # "Suggestions:"
    /\ (Ended => pc = "exited" /\ exitCode = 1)

(* ----------------------------------------------------------------------- *)
(* C7                                                                      *)
(* ----------------------------------------------------------------------- *)
SiteRequest(e) ==
  /\ e.ch = "net"
  /\ e.msg \in {"calendar", "calendar page", "cinema", "check", "login", "booking"}

\* C7: once a fetch of the start URL by initial has failed, no calendar,
\* cinema or restaurant request is issued, no result is printed, and the
\* process ends with a non-zero exit status.
C7_StartFailureAborts ==
  /\ \A i \in 1..Len(log) :
       log[i] = Fail("start") =>
         /\ i < Len(log) /\ log[i + 1] = Err("Failed to fetch links")
         /\ \A j \in (i + 1)..Len(log) : ~SiteRequest(log[j])
  /\ Failed("start") =>
       /\ printed = NothingPrinted
       /\ (Ended => pc = "exited" /\ exitCode # 0)

(* ----------------------------------------------------------------------- *)
(* C8                                                                      *)
(* ----------------------------------------------------------------------- *)
\* the start hour a slot code encodes in its characters 3-4
SlotStart(code) == parseInt(slice(code, 3, 5))
SlotEnd(code) == parseInt(sliceFrom(code, 5))
WindowText(code) == toString(SlotStart(code)) \o <<"-">> \o toString(SlotEnd(code))

\* the pairs (showing, day-filtered slot) with slot start = showing hour + 2
Matches ==
  {p \in (1..Len(cinemaInfo.val)) \X (1..Len(filtered)) :
     /\ SlotStart(filtered[p[2]]) # NaN
     /\ SlotStart(filtered[p[2]]) = ShowingHour(cinemaInfo.val[p[1]]) + 2}

\* showings first, slots second
PairBefore(p, q) == p[1] < q[1] \/ (p[1] = q[1] /\ p[2] <= q[2])
PairRank(p) == Cardinality({q \in Matches : PairBefore(q, p)})

Joined ==
  {t \in (1..Len(dateInfo.val)) \X (1..Len(cinemaInfo.val))
           \X (1..Len(restaurantInfo.val)) :
     WindowStart(restaurantInfo.val[t[3]]) # ShowingHour(cinemaInfo.val[t[2]])}

\* days outer, showings middle, windows inner
TripleBefore(t, u) ==
  \/ t[1] < u[1]
  \/ (t[1] = u[1] /\ t[2] < u[2])
  \/ (t[1] = u[1] /\ t[2] = u[2] /\ t[3] <= u[3])
TripleRank(t) == Cardinality({u \in Joined : TripleBefore(u, t)})

DayPrefixLen(code) == IF Len(code) < 3 THEN Len(code) ELSE 3

\* the day prefix of the code, as written, starts the lowercased name of
\* some good day
PrefixStartsDay(code) ==
  \E i \in 1..Len(dateInfo.val) :
    /\ DayPrefixLen(code) <= Len(dateInfo.val[i])
    /\ \A m \in 1..DayPrefixLen(code) : code[m] = ToLowerChar(dateInfo.val[i][m])

\* the same with the letter case of the code ignored too
PrefixStartsDayAnyCase(code) ==
  \E i \in 1..Len(dateInfo.val) :
    /\ DayPrefixLen(code) <= Len(dateInfo.val[i])
    /\ \A m \in 1..DayPrefixLen(code) :
         ToLowerChar(code[m]) = ToLowerChar(dateInfo.val[i][m])

\* sortAvailability has returned
SortHasFiltered == restaurantInfo.def

\* C10 as claimed: a slot code is kept if and only if its day prefix
\* matches the start of a good day's name, letter case ignored on both.
C10_FilterIgnoresCase ==
  SortHasFiltered =>
    \A code \in Range(inputElements(restData)) :
      code \in Range(filtered) <=> PrefixStartsDayAnyCase(code)

\* C10, amended: a slot code is kept if and only if its first three
\* characters, as written, start the lowercased name of some good day: the
\* letter case of the day label is ignored, that of the slot code is not.
C10_FilterLowersDayOnly ==
  SortHasFiltered =>
    \A code \in Range(inputElements(restData)) :
      code \in Range(filtered) <=> PrefixStartsDay(code)

\* under a day label in upper case a lower-case code is kept and a code
\* with an upper-case prefix is dropped
C10_Witness ==
  /\ pc = "assemble"
  /\ dateInfo.val = <<FRIDAY>>
  /\ fri1820 \in Range(filtered)
  /\ Fri1820 \in Range(inputElements(restData))
  /\ Fri1820 \notin Range(filtered)

(* ----------------------------------------------------------------------- *)
(* C11                                                                     *)
(* ----------------------------------------------------------------------- *)
\* the time entries of an answer whose status is not 0, in its order
OpenEntries(content) ==
  Filter(content, {i \in 1..Len(content) : content[i].status # 0})

\* the movie option a check asked about: the check for id k is made for the
\* option at index k of select#movie (index 0 being the placeholder)
QueriedOption(check) == cinema.movie.val[Number(check.movie) + 1]

\* one showing per open entry of the answer, under the title given
ShowingsOf(check, title) ==
  [i \in 1..Len(OpenEntries(check.content)) |->
     Showing(OpenEntries(check.content)[i].time, title)]

\* the showings collected so far: those of the days done and of the day
\* under way
Collected == film \o data

\* the answers received for the day, in the order received
ChecksOf(day) == Filter(checks, {i \in 1..Len(checks) : checks[i].day = day})

\* the showings are those of the open entries of the answers, in the order
\* of the answers, each under the title of the option asked about
ShowingsOfOpenEntries ==
  Collected = Flatten([i \in 1..Len(checks) |->
                         ShowingsOf(checks[i], QueriedOption(checks[i]).text)])

\* the same with the title left as iterateMovieDates found it
TimesOfOpenEntries ==
  Collected = Flatten([i \in 1..Len(checks) |->
                         ShowingsOf(checks[i],
                                    movieTitle(cinema.movie.val, checks[i].movie))])

NoUndefinedTitle ==
  \A i \in 1..Len(Collected) : Collected[i].movie # Undefined

\* once extractCinema has returned, every day that has an option was asked
\* about every movie option but the placeholder, once, in ascending order
EveryMovieAsked ==
  cinemaInfo.def =>
    \A d \in 1..Len(dateInfo.val) :
      IF findDay(cinema.day, dateInfo.val[d]).def
        THEN /\ Len(ChecksOf(dateInfo.val[d])) = Len(cinema.movie.val) - 1
             /\ \A k \in 1..Len(ChecksOf(dateInfo.val[d])) :
                  ChecksOf(dateInfo.val[d])[k].movie = twoDigits(k)
        ELSE ChecksOf(dateInfo.val[d]) = <<>>

\* C11: iterateMovieDates returns one Showing per time entry whose status
\* is not 0 and none for an entry with status 0, for every movie option but
\* the placeholder at index 0, in ascending order of the movie id, and each
\* Showing carries the title of the movie asked about, never an undefined
\* title.
C11_ShowingsCarryTitles ==
  /\ ShowingsOfOpenEntries
  /\ NoUndefinedTitle
  /\ EveryMovieAsked

\* what holds of C11 when the titles are left aside: the showings are those
\* of the open entries, movie after movie
C11_OpenEntriesInOrder ==
  /\ TimesOfOpenEntries
  /\ EveryMovieAsked

\* extractCinema has returned after an answer with an entry of status 0 and
\* an open one
C11_Answered ==
  /\ cinemaInfo.def
  /\ \E i \in 1..Len(checks) :
       /\ Len(checks[i].content) = 2
       /\ Len(OpenEntries(checks[i].content)) = 1

(* ----------------------------------------------------------------------- *)
(* C12                                                                     *)
(* ----------------------------------------------------------------------- *)
\* the showings iterateMovieDates collected for the day
ShowingsCollectedFor(day) ==
  UNION {Range(ShowingsOf(checks[i], movieTitle(cinema.movie.val, checks[i].movie))) :
           i \in {j \in 1..Len(checks) : checks[j].day = day}}

\* the day prefix of the slot code denotes the day: its first three
\* characters are those of the day's name, letter case ignored
DenotesDay(code, day) ==
  /\ Len(code) >= 3
  /\ Len(day) >= 3
  /\ \A m \in 1..3 : ToLowerChar(code[m]) = ToLowerChar(day[m])

\* the sentence joins the day with a showing collected for that day and a
\* window of a slot code of that day
SameDaySuggestion(sentence, day) ==
  \E showing \in ShowingsCollectedFor(day) :
    \E code \in Range(inputElements(restData)) :
      /\ DenotesDay(code, day)
      /\ sentence = Sentence(day, showing, WindowText(code))

\* C12: every suggestion of run names a day together with a showing that
\* iterateMovieDates collected for that day and a table window of a slot
\* code whose day prefix denotes that day.
C12_SuggestionsOfOneDay ==
  returned.head = "Suggestions:" =>
    \A r \in 1..Len(results) :
      \E d \in 1..Len(dateInfo.val) : SameDaySuggestion(results[r], dateInfo.val[d])

\* with one available day, or none, every suggestion is of that day
C12_OneDaySuggestions ==
  (returned.head = "Suggestions:" /\ Len(dateInfo.val) <= 1) =>
    \A r \in 1..Len(results) :
      \E d \in 1..Len(dateInfo.val) : SameDaySuggestion(results[r], dateInfo.val[d])

====
